---- MODULE Spec2Model ----
(***************************************************************************)
(* The room / auction state machine of src/server.js: the room registry,   *)
(* the lobby, the bidding handlers, the countdown (setInterval) and the    *)
(* post-sale advance (setTimeout).                                          *)
(*                                                                          *)
(* Time.  The server reads Date.now() and schedules callbacks in            *)
(* milliseconds.  The model counts time in steps of 1000/StepsPerSecond ms  *)
(* and stores every instant relative to "now": timerEndIn is                *)
(* r.timerEndTime - Date.now(), fireIn is the time until the next interval  *)
(* callback, and each pending setTimeout carries the time until it fires.   *)
(* The action Advance lets one step of time pass.  timerEndIn and fireIn    *)
(* are kept only while the interval is live (stopTimer zeroes them).        *)
(*                                                                          *)
(* Failure.  threw records that a handler or callback raised a TypeError    *)
(* that nothing catches: the process is gone and no action is enabled.      *)
(*                                                                          *)
(* History.  bidCount is not program state: it tells whether no bid, one   *)
(* bid, or two or more bids (2) were accepted since the lot on offer was    *)
(* put up.  pause is not program state either: pause.on tells that the     *)
(* clock is paused since an accepted toggle_timer paused it, and while the  *)
(* countdown that was running at that moment is still the live one          *)
(* (pause.live), pause.left is the time that was left at that moment.  out  *)
(* is what the last handler or callback emitted, as <<event, recipient>>.   *)
(* squads is r.squads as the set of its entries, each with its key;        *)
(* simulated is not program state: it tells that runNewLogicSimulation     *)
(* has been called for the room.  match is the innings being simulated by  *)
(* playMatch, tournament the run of runNewLogicSimulation.                  *)
(*                                                                          *)
(* Objects.  r.currentPlayer is a reference to an element of                *)
(* r.auctionQueue.  The model keeps a copy of the lot in currentPlayer with *)
(* idx, its position in auctionQueue (0 when the object is no longer in the *)
(* queue because start_auction replaced the array); a write to              *)
(* currentPlayer.status is applied to both.                                 *)
(***************************************************************************)
EXTENDS Integers, Sequences, FiniteSets, TLC

VARIABLES rooms, socketRoom, out, match, tournament

vars == <<rooms, socketRoom, out, match, tournament>>

-----------------------------------------------------------------------------
(* Program constants *)

AUCTION_TIMER_SECONDS == 10

SALE_DELAY_SECONDS == 4

\* steps of model time per second (the period of the interval callback)
StepsPerSecond == 1

(* Bounds of the model *)

\* the budget the admin client gives every team (script.js: #budget)
StartBudget == 2

\* sales the model lets happen beyond the end of the queue
MaxResales == 1

-----------------------------------------------------------------------------
(* Connections, identities and client payloads *)

Sockets == {"s1", "s2", "s3"}

\* io.use middleware: socket.playerId = handshake playerId || "guest_" + id.
\* s3 is a second connection of the participant behind s2.
PlayerIdOf(s) == CASE s = "s1" -> "pA" [] s = "s2" -> "pB" [] OTHER -> "pB"

RoomIds == {"R1", "R2"}

NoRoom == "undefined"

Passwords == {"pw", "bad"}

CreatePasswords == {"pw"}

\* getRoomId of a connection that has disconnected: it sends no more
Gone == "disconnected"

NoSocket == "null"

NoPlayerId == "undefined"

NoBidder == "null"

NONE == "NONE"

TeamKeys == {"T0", "T1"}

\* bid amounts a client may send: below, at and above every budget and price
BidAmounts == {0, 1, 2}

\* script.js initLobby: the team list the admin client sends.
FreshTeam(k) ==
    [bidKey |-> k, name |-> k, isTaken |-> FALSE, ownerSocketId |-> NoSocket,
     ownerPlayerId |-> NoPlayerId, budget |-> StartBudget,
     hasRoster |-> FALSE, roster |-> <<>>]

TeamKey(i) == IF i = 1 THEN "T0" ELSE "T1"

\* the list built for a team count of n
FreshTeams(n) == [i \in 1..n |-> FreshTeam(TeamKey(i))]

TeamCounts == {1, 2}

LotName(i) == IF i = 1 THEN "L1" ELSE IF i = 2 THEN "L2" ELSE "L3"

\* the lot at queue position i has base price i
Lot(i, st) == [name |-> LotName(i), basePrice |-> i, status |-> st]

\* the queues a start_auction request may carry
Queues == {<<>>, <<Lot(1, NONE)>>}

LongQueues == {<<Lot(1, NONE)>>, <<Lot(1, NONE), Lot(2, NONE)>>}

\* script.js startBtn: the team lists a start_auction request may carry
\* Queues a client resumes with: lots that already carry a status.
ResumeQueues ==
    {<<>>,
     <<Lot(1, NONE), Lot(2, NONE)>>,
     <<Lot(1, "SOLD"), Lot(2, NONE)>>,
     <<Lot(1, NONE), Lot(2, "UNSOLD")>>,
     <<Lot(1, "SOLD"), Lot(2, "UNSOLD")>>}

TeamPayloads == {FreshTeams(n) : n \in TeamCounts}

\* the names an admin_rename_team may carry
NewNames == {"X"}

\* The answers of the admin to a reclaim request: the request names its
\* sender, requesterId: socket.id and requesterPid: socket.playerId.
ReclaimDecisions ==
    {[approved |-> a, teamKey |-> k, requesterId |-> q, requesterPid |-> PlayerIdOf(q)] :
        a \in BOOLEAN, k \in TeamKeys, q \in {"s1", "s2"}}

\* script.js skipBtn and soldBtn: the parameters a finalize_sale may carry
SalePayloads ==
    {[isUnsold |-> TRUE, soldTo |-> NoBidder, price |-> 0],
     [isUnsold |-> FALSE, soldTo |-> "T1", price |-> 1]}

NoPlayer == [name |-> "null", basePrice |-> 0, status |-> NONE, idx |-> 0]

\* no pause of the admin is in force
NoPause == [on |-> FALSE, live |-> FALSE, left |-> 0]

\* the keys a squad can be recorded under: a submit_squad names any key
SquadKeys == TeamKeys \cup {"TX"}

\* runSimulationLogic and script.js toggleP11: the size of a playing eleven
SquadSize == 11

\* simulateInnings: ball <= 120
BallsPerInnings == 120

\* simulateInnings: bowlCardMap[bName].balls < 24
BowlerQuota == 24

\* simulateInnings: wickets >= 10
AllOut == 10

\* simulateInnings: Math.floor((ball - 1) / 6)
BallsPerOver == 6

\* simulateInnings: bowlers.length < 5 and playing11.slice(5)
MinBowlers == 5

\* the largest playing eleven the matches below are played with
MaxSquad == SquadSize

\* no tournament is being simulated
NoTournament == [stage |-> "none"]

\* no match is being simulated
NoMatch ==
    [stage |-> "none", bat |-> <<>>, bowl |-> <<>>, ball |-> 0, wickets |-> 0,
     score |-> 0, balls |-> 0, hasTarget |-> FALSE, target |-> 0,
     bowled |-> <<>>]

NoRoomRec ==
    [exists |-> FALSE, password |-> "", users |-> {}, teams |-> <<>>,
     auctionQueue |-> <<>>, auctionIndex |-> 0, currentBid |-> 0,
     currentBidder |-> NoBidder, currentPlayer |-> NoPlayer,
     timer |-> 0, timerInterval |-> FALSE, timerPaused |-> FALSE,
     timerEndIn |-> 0, fireIn |-> 0, isActive |-> FALSE,
     adminSocketId |-> NoSocket, adminPlayerId |-> NoPlayerId,
     sellingInProgress |-> FALSE, timeouts |-> <<>>, threw |-> FALSE,
     bidCount |-> 0, pause |-> NoPause, squads |-> {},
     simulated |-> FALSE, out |-> {}]

NewRoom(s, pw) ==
    [NoRoomRec EXCEPT !.exists = TRUE, !.password = pw, !.users = {s},
                      !.timer = AUCTION_TIMER_SECONDS, !.timerPaused = TRUE,
                      !.adminSocketId = s, !.adminPlayerId = PlayerIdOf(s)]

-----------------------------------------------------------------------------
(* Utilities *)

getRoomId(s) == socketRoom[s]

isAdmin(s) ==
    /\ getRoomId(s) # NoRoom
    /\ rooms[getRoomId(s)].exists
    /\ rooms[getRoomId(s)].adminSocketId = s

Emit(r, ev, to) == [r EXCEPT !.out = @ \cup {<<ev, to>>}]

\* Array.prototype.find by bidKey: index of the first match, 0 when none
TeamIndex(teams, key) ==
    IF \E i \in 1..Len(teams) : teams[i].bidKey = key
    THEN CHOOSE i \in 1..Len(teams) :
            /\ teams[i].bidKey = key
            /\ \A j \in 1..(i - 1) : teams[j].bidKey # key
    ELSE 0

\* Math.ceil(a / b) for b > 0
CeilDiv(a, b) == -((-a) \div b)

RECURSIVE SumPrices(_)
SumPrices(roster) ==
    IF roster = <<>> THEN 0 ELSE Head(roster).price + SumPrices(Tail(roster))

-----------------------------------------------------------------------------
(* Timer logic *)

\* startTimer with the "basically full" window widened to five seconds
startTimerWideSkip(r) ==
    IF ~r.exists THEN r
    ELSE IF r.timerInterval /\ r.timer > AUCTION_TIMER_SECONDS - 5 THEN r
    ELSE [r EXCEPT !.timer = AUCTION_TIMER_SECONDS,
                   !.timerPaused = FALSE,
                   !.timerEndIn = AUCTION_TIMER_SECONDS * StepsPerSecond,
                   !.timerInterval = TRUE,
                   !.fireIn = StepsPerSecond,
                   !.pause = NoPause,
                   !.out = @ \cup {<<"timer_tick", "room">>,
                                   <<"timer_status", "room">>}]

startTimer(r) ==
    IF ~r.exists THEN r
    ELSE IF r.timerInterval /\ r.timer > AUCTION_TIMER_SECONDS - 2 THEN r
    ELSE [r EXCEPT !.timer = AUCTION_TIMER_SECONDS,
                   !.timerPaused = FALSE,
                   !.timerEndIn = AUCTION_TIMER_SECONDS * StepsPerSecond,
                   !.timerInterval = TRUE,
                   !.fireIn = StepsPerSecond,
                   !.pause = NoPause,
                   !.out = @ \cup {<<"timer_tick", "room">>,
                                   <<"timer_status", "room">>}]

stopTimer(r) ==
    IF r.exists /\ r.timerInterval
    THEN [r EXCEPT !.timerInterval = FALSE, !.timerEndIn = 0, !.fireIn = 0,
                   !.pause = [@ EXCEPT !.live = FALSE, !.left = 0]]
    ELSE r

\* The sale itself (lines 104-137), entered once the guard of line 98 has
\* passed.  team.roster.push on a team object that has no roster (a team
\* list set by update_lobby_teams) raises a TypeError: threw.
SaleBody(r) ==
    LET r1 == Emit(stopTimer([r EXCEPT !.sellingInProgress = TRUE]),
                   "timer_ended", "room")
        ti == IF r.currentBidder # NoBidder
              THEN TeamIndex(r.teams, r.currentBidder) ELSE 0
        soldPrice == IF ti # 0 THEN r.currentBid ELSE 0
        st == IF ti # 0 THEN "SOLD" ELSE "UNSOLD"
        cur == r.currentPlayer
    IN  IF ti # 0 /\ ~r.teams[ti].hasRoster
        THEN [r1 EXCEPT !.threw = TRUE]
        ELSE [r1 EXCEPT
                !.teams = IF ti = 0 THEN @
                          ELSE [@ EXCEPT
                                  ![ti].roster =
                                      Append(@, [name |-> cur.name,
                                                 price |-> soldPrice]),
                                  ![ti].budget = @ - soldPrice],
                !.currentPlayer = [@ EXCEPT !.status = st],
                !.auctionQueue = IF cur.idx = 0 THEN @
                                 ELSE [@ EXCEPT ![cur.idx].status = st],
                !.out = @ \cup {<<"sale_finalized", "room">>},
                !.auctionIndex = @ + 1,
                !.timeouts = Append(@, [in |-> SALE_DELAY_SECONDS * StepsPerSecond,
                                        ofCurrent |-> TRUE])]

processSale(r) ==
    IF ~r.exists \/ r.currentPlayer = NoPlayer \/ r.sellingInProgress THEN r
    ELSE SaleBody(r)

\* A new object becomes the current lot: no pending advance callback was
\* scheduled by a sale of it.
SetCurrent(r, i) ==
    [r EXCEPT !.currentPlayer = [name |-> r.auctionQueue[i].name,
                                 basePrice |-> r.auctionQueue[i].basePrice,
                                 status |-> r.auctionQueue[i].status,
                                 idx |-> i],
              !.timeouts = [k \in 1..Len(@) |-> [@[k] EXCEPT !.ofCurrent = FALSE]]]

RECURSIVE startNextLot(_)
startNextLot(r) ==
    IF ~r.exists THEN r
    ELSE IF r.auctionIndex >= Len(r.auctionQueue)
    THEN Emit(r, "open_squad_selection", "room")
    ELSE LET r1 == SetCurrent(r, r.auctionIndex + 1)
         IN  IF r1.currentPlayer.status # NONE
             THEN startNextLot([r1 EXCEPT !.auctionIndex = @ + 1])
             ELSE startTimer(
                    [r1 EXCEPT !.currentBid = r1.currentPlayer.basePrice,
                               !.currentBidder = NoBidder,
                               !.sellingInProgress = FALSE,
                               !.bidCount = 0,
                               !.out = @ \cup {<<"update_lot", "room">>}])

\* the setInterval callback of startTimer
intervalCallback(r) ==
    IF r.timerPaused
    THEN [r EXCEPT !.timerEndIn = @ + StepsPerSecond, !.fireIn = StepsPerSecond]
    ELSE LET remaining == CeilDiv(r.timerEndIn, StepsPerSecond)
             r1 == Emit([r EXCEPT !.timer = remaining,
                                  !.fireIn = StepsPerSecond],
                        "timer_tick", "room")
         IN  IF remaining <= 0 THEN processSale(r1) ELSE r1

\* the setTimeout callback of processSale
advanceCallback(r) ==
    startNextLot([r EXCEPT !.sellingInProgress = FALSE,
                           !.timeouts = Tail(@)])

-----------------------------------------------------------------------------
(* Socket handlers, as functions of the room they act on *)

\* bidIgnored without the check of the pause flag
bidIgnoredNoPause(r) ==
    \/ ~r.exists
    \/ ~r.isActive
    \/ r.sellingInProgress
    \/ r.currentPlayer = NoPlayer

\* lines 413-420: the checks of place_bid that return silently
bidIgnored(r) ==
    \/ ~r.exists
    \/ ~r.isActive
    \/ r.timerPaused
    \/ r.sellingInProgress
    \/ r.currentPlayer = NoPlayer

\* bidAuthorized that takes any claimed team as the caller's
bidAuthorizedLoose(team, s) ==
    \/ team.ownerSocketId = s
    \/ team.ownerPlayerId # NoPlayerId

\* lines 425-431: the caller controls the team
bidAuthorized(team, s) ==
    \/ team.ownerSocketId = s
    \/ team.ownerPlayerId = PlayerIdOf(s)

\* bidRefusal that lets a bid equal to the current bid through
bidRefusalLax(r, team, teamKey, amount) ==
    IF r.currentBidder = teamKey THEN "silent"
    ELSE IF team.budget < amount THEN "No Budget!"
    ELSE IF amount < r.currentBid /\ r.currentBidder # NoBidder
    THEN "Bid too low!"
    ELSE ""

\* lines 433-436: "" when the bid is accepted, else why it is not
bidRefusal(r, team, teamKey, amount) ==
    IF r.currentBidder = teamKey THEN "silent"
    ELSE IF team.budget < amount THEN "No Budget!"
    ELSE IF amount <= r.currentBid /\ r.currentBidder # NoBidder
    THEN "Bid too low!"
    ELSE ""

placeBid(r, s, teamKey, amount) ==
    IF bidIgnored(r) THEN r
    ELSE LET ti == TeamIndex(r.teams, teamKey) IN
         IF ti = 0 THEN r
         ELSE IF ~bidAuthorized(r.teams[ti], s)
         THEN Emit(r, "error_message: Authorization Failed", s)
         ELSE LET r1 == [r EXCEPT !.teams[ti].ownerSocketId = s]
                  why == bidRefusal(r1, r1.teams[ti], teamKey, amount)
              IN  IF why = "silent" THEN r1
                  ELSE IF why = "No Budget!"
                  THEN Emit(r1, "error_message: No Budget!", s)
                  ELSE IF why = "Bid too low!"
                  THEN Emit(r1, "error_message: Bid too low!", s)
                  ELSE startTimer(
                         [r1 EXCEPT !.currentBid = amount,
                                    !.currentBidder = teamKey,
                                    !.bidCount = IF @ = 0 THEN 1 ELSE 2,
                                    !.out = @ \cup {<<"bid_update", "room">>}])

\* start_auction: r.teams.filter(t => t.isTaken)
Taken(teams) == SelectSeq(teams, LAMBDA t : t.isTaken)

\* A start_auction that announces a lot and starts the countdown whatever
\* the queue holds.
startAuctionOffering(r, queue) ==
    startTimer(
      [r EXCEPT
         !.teams = [i \in 1..Len(Taken(r.teams)) |->
                      [Taken(r.teams)[i] EXCEPT !.roster = <<>>,
                                                !.hasRoster = TRUE]],
         !.auctionQueue = queue,
         !.isActive = TRUE,
         !.out = @ \cup {<<"auction_started", "room">>, <<"update_lot", "room">>}])

startAuction(r, queue) ==
    startNextLot(
      [r EXCEPT
         !.teams = [i \in 1..Len(Taken(r.teams)) |->
                      [Taken(r.teams)[i] EXCEPT !.roster = <<>>,
                                                !.hasRoster = TRUE]],
         !.auctionQueue = queue,
         !.currentPlayer = IF @ = NoPlayer THEN @ ELSE [@ EXCEPT !.idx = 0],
         !.isActive = TRUE,
         !.out = @ \cup {<<"auction_started", "room">>}])

\* A create_room that replaces a live room.
createRoomOverwrite(r, s, pw) ==
    Emit(NewRoom(s, pw), "roomcreated", s)

\* create_room, for the registry entry r of the code the request names
createRoom(r, s, pw) ==
    IF r.exists
    THEN Emit(r, "error_message: Room Exists!", s)
    ELSE Emit(NewRoom(s, pw), "roomcreated", s)

claimLobbyTeam(r, s, key) ==
    IF \E i \in 1..Len(r.teams) :
          r.teams[i].ownerPlayerId = PlayerIdOf(s) /\ r.teams[i].bidKey # key
    THEN Emit(r, "error_message: You already own a team!", s)
    ELSE LET ti == TeamIndex(r.teams, key) IN
         IF ti # 0 /\ (~r.teams[ti].isTaken
                         \/ r.teams[ti].ownerPlayerId = PlayerIdOf(s))
         THEN [r EXCEPT !.teams[ti].isTaken = TRUE,
                        !.teams[ti].ownerSocketId = s,
                        !.teams[ti].ownerPlayerId = PlayerIdOf(s),
                        !.out = @ \cup {<<"team_claim_success", s>>,
                                        <<"lobby_update", "room">>}]
         ELSE r

reclaimTeam(r, s, key) ==
    LET ti == TeamIndex(r.teams, key)
    IN  IF r.exists /\ ti # 0 /\ r.teams[ti].ownerPlayerId = PlayerIdOf(s)
        THEN Emit([r EXCEPT !.teams[ti].ownerSocketId = s], "team_claim_success", s)
        ELSE r

requestReclaimManual(r, s, key) ==
    IF r.exists /\ TeamIndex(r.teams, key) # 0 /\ r.adminSocketId # NoSocket
    THEN Emit(r, "admin_reclaim_request", r.adminSocketId)
    ELSE r

joinRoom(r, s) ==
    LET r1 == [r EXCEPT !.users = @ \cup {s},
                        !.adminSocketId =
                            IF r.adminPlayerId = PlayerIdOf(s) THEN s ELSE @]
        mine == { i \in 1..Len(r.teams) :
                     r.teams[i].ownerPlayerId = PlayerIdOf(s) }
        r2 == IF mine = {} THEN r1
              ELSE LET ti == CHOOSE i \in mine : \A j \in mine : i <= j
                   IN  Emit([r1 EXCEPT !.teams[ti].ownerSocketId = s],
                            "team_claim_success", s)
    IN  [r2 EXCEPT !.out = @ \cup {<<"room_joined", s>>,
                                   <<"lobby_update", "room">>}]

\* A join_room that does not compare the password.
joinRoomOpen(r, s, pw) ==
    IF ~r.exists
    THEN Emit(r, "error_message: Invalid Credentials", s)
    ELSE joinRoom(r, s)

\* join_room, for the registry entry r of the code the request names
joinRoomRequest(r, s, pw) ==
    IF ~r.exists \/ r.password # pw
    THEN Emit(r, "error_message: Invalid Credentials", s)
    ELSE joinRoom(r, s)

\* disconnect, for the room r that getRoomId(socket) names
disconnect(r, s) ==
    IF r.exists
    THEN Emit([r EXCEPT !.users = @ \ {s}], "lobby_update", "room")
    ELSE r

\* isAdmin(socket), for the room r that getRoomId(socket) names
isAdminOf(r, s) == r.exists /\ r.adminSocketId = s

\* A start_auction that installs the team list of the request.
startAuctionTrusting(r, s, payload) ==
    IF isAdminOf(r, s)
    THEN [startAuction(r, payload.queue) EXCEPT !.teams = payload.teams]
    ELSE r

\* start_auction: of the payload the handler reads queue only, ({ queue })
startAuctionRequest(r, s, payload) ==
    IF isAdminOf(r, s) THEN startAuction(r, payload.queue) ELSE r

updateLobbyTeams(r, s, teams) ==
    IF isAdminOf(r, s)
    THEN Emit([r EXCEPT !.teams = teams], "lobby_update", "room")
    ELSE r

\* A toggle_timer with no admin check.
toggleTimerOpen(r, s) ==
    IF r.exists
    THEN Emit([r EXCEPT !.timerPaused = ~@], "timer_status", "room")
    ELSE r

toggleTimer(r, s) ==
    IF isAdminOf(r, s)
    THEN Emit([r EXCEPT
                 !.timerPaused = ~@,
                 !.pause = IF r.timerPaused THEN NoPause
                           ELSE [on |-> TRUE, live |-> r.timerInterval,
                                 left |-> r.timerEndIn]],
              "timer_status", "room")
    ELSE r

\* A finalize_sale that takes the outcome from the request.
finalizeSaleTrusting(r, s, payload) ==
    IF isAdminOf(r, s)
    THEN processSale([r EXCEPT
                        !.currentBidder = IF payload.isUnsold THEN NoBidder
                                          ELSE payload.soldTo,
                        !.currentBid = IF payload.isUnsold THEN @ ELSE payload.price])
    ELSE r

\* finalize_sale: the handler declares no parameter, () => {...}
finalizeSale(r, s, payload) ==
    IF isAdminOf(r, s) THEN processSale(r) ELSE r

endAuction(r, s) ==
    IF isAdminOf(r, s)
    THEN Emit([stopTimer(r) EXCEPT !.isActive = FALSE],
              "open_squad_selection", "room")
    ELSE r

adminRenameTeam(r, s, key, newName) ==
    IF isAdminOf(r, s)
    THEN LET ti == TeamIndex(r.teams, key)
         IN  Emit(IF ti # 0 THEN [r EXCEPT !.teams[ti].name = newName] ELSE r,
                  "lobby_update", "room")
    ELSE r

adminReclaimDecision(r, s, d) ==
    IF ~r.exists \/ ~isAdminOf(r, s) THEN r
    ELSE IF d.approved
    THEN LET ti == TeamIndex(r.teams, d.teamKey)
         IN  IF ti # 0
             THEN [r EXCEPT !.teams[ti].ownerSocketId = d.requesterId,
                            !.teams[ti].ownerPlayerId = d.requesterPid,
                            !.out = @ \cup {<<"team_claim_success", d.requesterId>>,
                                            <<"lobby_update", "room">>}]
             ELSE r
    ELSE Emit(r, "error_message: Host denied your reclaim request.", d.requesterId)

\* r.squads[k] is defined
Submitted(r, k) == \E q \in r.squads : q.teamKey = k

\* r.squads[k]
SquadOf(r, k) == CHOOSE q \in r.squads : q.teamKey = k

\* Object.keys(r.squads).length
SubmittedCount(r) == Cardinality(r.squads)

NamesOf(roster) == [i \in 1..Len(roster) |-> roster[i].name]

InSeq(x, seq) == \E i \in 1..Len(seq) : seq[i] = x

FirstN(seq, n) == SubSeq(seq, 1, IF Len(seq) < n THEN Len(seq) ELSE n)

\* runSimulationLogic, the playing eleven of a claimed team: the submitted
\* one, or none; when it is short, the first lots of the roster it does not
\* name are added
PlayingOf(r, i) ==
    LET k == r.teams[i].bidKey
        p11 == IF Submitted(r, k) THEN SquadOf(r, k).playing11 ELSE <<>>
        available == SelectSeq(NamesOf(r.teams[i].roster),
                               LAMBDA n : ~InSeq(n, p11))
    IN  IF Len(p11) < SquadSize /\ Len(r.teams[i].roster) > 0
        THEN p11 \o FirstN(available, SquadSize - Len(p11))
        ELSE p11

\* runSimulationLogic, a TypeError while it prepares a claimed team: .length
\* of a playing11 that was submitted as undefined, or t.roster.length of a
\* team object that has no roster
PrepareThrows(r, i) ==
    LET k == r.teams[i].bidKey
    IN  \/ Submitted(r, k) /\ ~SquadOf(r, k).hasPlaying11
        \/ /\ Len(IF Submitted(r, k) THEN SquadOf(r, k).playing11 ELSE <<>>) < SquadSize
           /\ ~r.teams[i].hasRoster

\* runNewLogicSimulation inside the try block: playMatch finds the loser of
\* a league match by t.name !== winnerName, which is undefined when both
\* teams carry one name, and loser.stats raises a TypeError that the catch
\* turns into simulation_error
runSimulationLogic(r) ==
    LET claimed == {i \in 1..Len(r.teams) : r.teams[i].isTaken}
        tourneyTeams == {i \in claimed : Len(PlayingOf(r, i)) > 0}
    IN  IF \E i \in claimed : PrepareThrows(r, i)
        THEN [r EXCEPT !.threw = TRUE]
        ELSE IF Cardinality(tourneyTeams) < 2
        THEN Emit(r, "simulation_error", "room")
        ELSE IF \E i, j \in tourneyTeams : i # j /\ r.teams[i].name = r.teams[j].name
        THEN Emit([r EXCEPT !.simulated = TRUE], "simulation_error", "room")
        ELSE Emit([r EXCEPT !.simulated = TRUE], "tournamentComplete", "room")

\* The parameters a submit_squad may carry: no object at all, an object
\* without a playing11, or one whose playing11 lists no lot or the lot L1.
SquadPayloads ==
    {[given |-> v[1], teamKey |-> k, hasPlaying11 |-> v[2], playing11 |-> v[3],
      impact |-> "L2", captain |-> "L1"] :
        k \in SquadKeys,
        v \in {<<TRUE, TRUE, <<>>>>, <<TRUE, TRUE, <<"L1">>>>,
               <<TRUE, FALSE, <<>>>>}} \cup
    {[given |-> FALSE, teamKey |-> "T0", hasPlaying11 |-> FALSE,
      playing11 |-> <<>>, impact |-> "null", captain |-> "null"]}

\* submit_squad: destructuring a request without an object raises a
\* TypeError; otherwise the squad is recorded under the key the request
\* names, the count is broadcast, and the tournament runs once as many
\* squads are recorded as teams are claimed
submitSquad(r, s, p) ==
    IF ~p.given THEN [r EXCEPT !.threw = TRUE]
    ELSE IF ~r.exists THEN r
    ELSE LET r1 == Emit([r EXCEPT !.squads =
                                    {q \in @ : q.teamKey # p.teamKey} \cup
                                    {[teamKey |-> p.teamKey,
                                      hasPlaying11 |-> p.hasPlaying11,
                                      playing11 |-> p.playing11,
                                      impact |-> p.impact,
                                      captain |-> p.captain]}],
                        "squad_submission_update", "room")
         IN  IF SubmittedCount(r1) = Len(Taken(r1.teams))
             THEN runSimulationLogic(r1)
             ELSE r1

startTournament(r, s) ==
    IF isAdminOf(r, s) THEN runSimulationLogic(r) ELSE r

-----------------------------------------------------------------------------
(* The match engine: playMatch and simulateInnings of runNewLogicSimulation. *)
(* A playing eleven is the sequence of its players' roles, TRUE for a role   *)
(* key that names bowling (bowl, fast, spin, ar, all); players are told      *)
(* apart by their position, their names being distinct.  Math.random is a    *)
(* free choice of the outcome of each ball.  match.ball is the loop          *)
(* variable: ball - 1 deliveries have been bowled in the innings.            *)

\* the highest innings score the matches below are played to
MaxScore == 2

\* the playing elevens matches are simulated with: one batter, four
\* all-rounders, eleven with five bowlers, eleven without any bowler
Squads ==
    {<<FALSE>>,
     [i \in 1..4 |-> TRUE],
     [i \in 1..MaxSquad |-> i > 6],
     [i \in 1..MaxSquad |-> FALSE]}

\* playBall: the runs of a ball that takes no wicket
RunsOfBall == {0, 1, 2, 3, 4, 6}

Positions(sq, from) == SelectSeq([i \in 1..Len(sq) |-> i], LAMBDA i : i >= from)

\* simulateInnings: the bowlers of the bowling side: the players with a
\* bowling role, or if they are fewer than five playing11.slice(5), or if
\* that is empty the whole playing eleven
bowlersOf(sq) ==
    LET byRole == SelectSeq([i \in 1..Len(sq) |-> i], LAMBDA i : sq[i])
    IN  IF Len(byRole) >= MinBowlers THEN byRole
        ELSE IF Positions(sq, MinBowlers + 1) # <<>>
        THEN Positions(sq, MinBowlers + 1)
        ELSE Positions(sq, 1)

MinOf(S) == CHOOSE x \in S : \A y \in S : x <= y

\* simulateInnings, the bowler of a ball: the bowler whose turn the over
\* is, or the next in the rotation who has bowled fewer than 24 balls; if
\* there is none the first player of the playing eleven who has, and if
\* there is none either bowlers[0]
bowlerOf(sq, bowled, ball) ==
    LET bowlers == bowlersOf(sq)
        len == Len(bowlers)
        start == ((ball - 1) \div BallsPerOver) % len
        At(k) == bowlers[((start + k) % len) + 1]
        inTurn == {k \in 0..(len - 1) : bowled[At(k)] < BowlerQuota}
        partTimers == {q \in 1..Len(sq) : bowled[q] < BowlerQuota}
    IN  IF inTurn # {} THEN At(MinOf(inTurn))
        ELSE IF partTimers # {} THEN MinOf(partTimers)
        ELSE bowlers[1]

\* simulateInnings, the guard at the head of the loop body:
\* wickets >= 10 || wickets >= batCard.length - 1 || (target && score > target)
\* where a target of null or 0 is falsy
breaks(m) ==
    \/ m.wickets >= AllOut
    \/ m.wickets >= Len(m.bat) - 1
    \/ m.hasTarget /\ m.target # 0 /\ m.score > m.target

\* simulateInnings(batTeam, bowlTeam, target) as its loop starts
innings(stage, batTeam, bowlTeam, hasTarget, target) ==
    [stage |-> stage, bat |-> batTeam, bowl |-> bowlTeam, ball |-> 1,
     wickets |-> 0, score |-> 0, balls |-> 0, hasTarget |-> hasTarget,
     target |-> target,
     bowled |-> [q \in 1..MaxSquad |-> 0]]

\* one pass of the loop body that bowls a ball: the bowler is charged the
\* ball, and the ball takes a wicket or adds its runs to the score; the
\* local balls, which the innings result reports, is not written
loopBody(m, isOut, runs) ==
    LET b == bowlerOf(m.bowl, m.bowled, m.ball)
    IN  [m EXCEPT !.bowled[b] = @ + 1,
                  !.ball = @ + 1,
                  !.wickets = IF isOut THEN @ + 1 ELSE @,
                  !.score = IF isOut THEN @ ELSE @ + runs]

\* playMatch: i1 = simulateInnings(t1, t2, null), then
\* i2 = simulateInnings(t2, t1, i1.score)
MatchInit ==
    /\ rooms = [rid \in RoomIds |-> NoRoomRec]
    /\ socketRoom = [s \in Sockets |-> NoRoom]
    /\ out = {}
    /\ tournament = NoTournament
    /\ \E t1 \in Squads, t2 \in Squads :
          match = innings("first", t1, t2, FALSE, 0)

Deliver ==
    /\ match.stage \in {"first", "second"}
    /\ match.ball <= BallsPerInnings
    /\ ~breaks(match)
    /\ \E isOut \in BOOLEAN, runs \in RunsOfBall :
          /\ isOut => runs = 0
          /\ match.score + runs <= MaxScore
          /\ match' = loopBody(match, isOut, runs)
    /\ UNCHANGED <<rooms, socketRoom, out, tournament>>

\* the loop is left, by break or after ball 120
EndInnings ==
    /\ match.stage \in {"first", "second"}
    /\ match.ball > BallsPerInnings \/ breaks(match)
    /\ match' = IF match.stage = "first"
                THEN innings("second", match.bowl, match.bat, TRUE, match.score)
                ELSE [match EXCEPT !.stage = "done"]
    /\ UNCHANGED <<rooms, socketRoom, out, tournament>>

MatchNext == Deliver \/ EndInnings

MatchSpec == MatchInit /\ [][MatchNext]_vars

-----------------------------------------------------------------------------
(* The tournament: runNewLogicSimulation.  An innings is taken by its score *)
(* alone, a free choice; a team is its name and its league statistics; of   *)
(* a league match the list leagueMatches keeps the two sides, in batting    *)
(* order.                                                                   *)
(* oversFaced and oversBowled are counted in balls (sixths of an over).     *)

\* the scores an innings of the matches below ends with
InningsScores == {0, 1}

\* simulateInnings: the balls of an innings result, declared and never written
ReportedBalls == 0

\* playMatch: the 20 overs credited for a first innings
FullOvers == 20

\* runNewLogicSimulation: teams.length >= 4 plays the four play-offs
PlayOffTeams == 4

\* the names of the teams admitted to a tournament
TeamNames ==
    {<<"A", "B">>, <<"A", "A">>, <<"A", "B", "C">>, <<"A", "B", "C", "D">>}

\* the pairs of scores a league match ends with: every pair, and in the
\* long league of four teams a win by one run for either side
LeagueScores(n) ==
    IF n >= PlayOffTeams THEN {<<1, 0>>, <<0, 1>>}
    ELSE InningsScores \X InningsScores

\* runNewLogicSimulation: t.stats as the tournament starts
newStats(name) ==
    [name |-> name, p |-> 0, w |-> 0, l |-> 0, pts |-> 0, runsScored |-> 0,
     runsConceded |-> 0, oversFaced |-> 0, oversBowled |-> 0]

\* no match has been played yet
NoResult ==
    [type |-> "none", t1 |-> "", t2 |-> "", score1 |-> 0, score2 |-> 0,
     winnerName |-> ""]

\* the league loops: for i, for j > i: teams[i] v teams[j], teams[j] v teams[i]
RECURSIVE leagueOrder(_, _, _)
leagueOrder(n, i, j) ==
    IF i > n THEN <<>>
    ELSE IF j > n THEN leagueOrder(n, i + 1, i + 2)
    ELSE <<<<i, j>>, <<j, i>>>> \o leagueOrder(n, i, j + 1)

\* a league that plays each pairing once
leagueFixturesSingle(n) ==
    SelectSeq(leagueOrder(n, 1, 2), LAMBDA m : m[1] < m[2])

\* the league matches of n teams, in the order they are played
leagueFixtures(n) ==
    leagueOrder(n, 1, 2)

\* playMatch where the side batting second wins a tie
winnerNameTieSecond(t1, t2, score1, score2) ==
    IF score2 >= score1 THEN t2.name ELSE t1.name

\* playMatch: i2.score > i1.score ? t2.name : t1.name, and t1.name on a tie
winnerNameOf(t1, t2, score1, score2) ==
    IF score2 > score1 THEN t2.name ELSE t1.name

\* playMatch: what it returns
resultOf(type, t1, t2, score1, score2) ==
    [type |-> type, t1 |-> t1.name, t2 |-> t2.name, score1 |-> score1,
     score2 |-> score2, winnerName |-> winnerNameOf(t1, t2, score1, score2)]

\* playMatch, type League: [t1, t2].find(t => t.name !== winnerName) finds
\* no loser when both teams carry the winner's name, and loser.stats raises
\* a TypeError
leagueThrows(t1, t2) == t1.name = t2.name

\* playMatch, type League: the table update of the team at position k when
\* teams[a] batted first against teams[b]
leagueUpdate(teams, a, b, score1, score2) ==
    LET wn == winnerNameOf(teams[a], teams[b], score1, score2)
        winner == IF teams[a].name = wn THEN a ELSE b
        loser == IF teams[a].name # wn THEN a ELSE b
        credit(t, first) ==
            [t EXCEPT
               !.runsScored = @ + (IF first THEN score1 ELSE score2),
               !.runsConceded = @ + (IF first THEN score2 ELSE score1),
               !.oversFaced = @ + (IF first THEN FullOvers * BallsPerOver
                                            ELSE ReportedBalls),
               !.oversBowled = @ + (IF first THEN ReportedBalls
                                             ELSE FullOvers * BallsPerOver)]
    IN  [k \in 1..Len(teams) |->
           IF k = winner
           THEN credit([teams[k] EXCEPT !.p = @ + 1, !.w = @ + 1, !.pts = @ + 2],
                       k = a)
           ELSE IF k = loser
           THEN credit([teams[k] EXCEPT !.p = @ + 1, !.l = @ + 1], k = a)
           ELSE teams[k]]

\* t.stats.nrr = runsScored / oversFaced - runsConceded / oversBowled || 0,
\* as the fraction nrrNum / nrrDen; a quotient by 0 overs is not a number
\* of the league table and is taken as 0
nrrDen(t) == IF t.oversFaced = 0 \/ t.oversBowled = 0 THEN 1
             ELSE t.oversFaced * t.oversBowled

nrrNum(t) == IF t.oversFaced = 0 \/ t.oversBowled = 0 THEN 0
             ELSE t.runsScored * t.oversBowled - t.runsConceded * t.oversFaced

nrrLess(a, b) == nrrNum(a) * nrrDen(b) < nrrNum(b) * nrrDen(a)

\* a comparator that ranks by points alone
rankedBeforePoints(a, b) == a.pts > b.pts

\* the comparator of teams.sort: a negative value of
\* b.stats.pts - a.stats.pts || b.stats.nrr - a.stats.nrr puts a before b
rankedBefore(a, b) ==
    \/ a.pts > b.pts
    \/ a.pts = b.pts /\ nrrLess(b, a)

\* teams.sort: the stable ordering of the teams by the comparator
sortTeams(teams) ==
    LET n == Len(teams)
        q == CHOOSE f \in [1..n -> 1..n] :
               /\ \A x, y \in 1..n : x # y => f[x] # f[y]
               /\ \A x, y \in 1..n :
                    x < y => \/ rankedBefore(teams[f[x]], teams[f[y]])
                             \/ /\ ~rankedBefore(teams[f[y]], teams[f[x]])
                                /\ f[x] < f[y]
    IN  [x \in 1..n |-> teams[q[x]]]

\* Array.prototype.find by name: the position of the first match
findByName(teams, name) ==
    CHOOSE k \in 1..Len(teams) :
      /\ teams[k].name = name
      /\ \A x \in 1..(k - 1) : teams[x].name # name

\* runNewLogicSimulation as the league starts
startTournamentOf(names) ==
    [stage |-> "league",
     teams |-> [k \in 1..Len(names) |-> newStats(names[k])],
     next |-> 1, leagueMatches |-> <<>>, playoffs |-> <<>>,
     last |-> NoResult, winner |-> "", runnerUp |-> ""]

\* one pass of the league loops: playMatch(teams[a], teams[b], "League")
leagueMatch(t, score1, score2) ==
    LET a == leagueFixtures(Len(t.teams))[t.next][1]
        b == leagueFixtures(Len(t.teams))[t.next][2]
        res == resultOf("League", t.teams[a], t.teams[b], score1, score2)
    IN  IF leagueThrows(t.teams[a], t.teams[b])
        THEN [t EXCEPT !.stage = "error"]
        ELSE [t EXCEPT !.teams = leagueUpdate(@, a, b, score1, score2),
                       !.leagueMatches = Append(@, <<res.t1, res.t2>>),
                       !.last = res,
                       !.next = @ + 1]

\* the net rates, the sort, and the defaults of champion and runner
standings(t) ==
    LET sorted == sortTeams(t.teams)
    IN  [t EXCEPT !.teams = sorted,
                  !.stage = "playoffs",
                  !.winner = sorted[1].name,
                  !.runnerUp = sorted[2].name]

\* the sides of the next play-off match and its type
playOffSides(t) ==
    LET done == Len(t.playoffs)
        teams == t.teams
    IN  IF Len(teams) < PlayOffTeams THEN <<1, 2, "FINAL">>
        ELSE IF done = 0 THEN <<1, 2, "Qualifier 1">>
        ELSE IF done = 1 THEN <<3, 4, "Eliminator">>
        ELSE IF done = 2
        THEN <<IF t.playoffs[1].winnerName = teams[1].name THEN 2 ELSE 1,
               IF t.playoffs[2].winnerName = teams[3].name THEN 3 ELSE 4,
               "Qualifier 2">>
        ELSE <<findByName(teams, t.playoffs[1].winnerName),
               findByName(teams, t.playoffs[3].winnerName),
               "FINAL">>

\* a four-team final in which the runner-up is left as the league's second
playOffKeepingRunner(t, score1, score2) ==
    LET sides == playOffSides(t)
        res == resultOf(sides[3], t.teams[sides[1]], t.teams[sides[2]],
                        score1, score2)
        t1 == [t EXCEPT !.playoffs = Append(@, res), !.last = res]
    IN  IF sides[3] # "FINAL" THEN t1
        ELSE [t1 EXCEPT !.stage = "done", !.winner = res.winnerName]

\* one play-off match; the final sets the champion, and with four teams or
\* more the runner-up too
playOff(t, score1, score2) ==
    LET sides == playOffSides(t)
        res == resultOf(sides[3], t.teams[sides[1]], t.teams[sides[2]],
                        score1, score2)
        t1 == [t EXCEPT !.playoffs = Append(@, res), !.last = res]
    IN  IF sides[3] # "FINAL" THEN t1
        ELSE IF Len(t.teams) >= PlayOffTeams
        THEN [t1 EXCEPT !.stage = "done",
                        !.winner = res.winnerName,
                        !.runnerUp = IF res.winnerName = res.t1
                                     THEN res.t2 ELSE res.t1]
        ELSE [t1 EXCEPT !.stage = "done", !.winner = res.winnerName]

TournamentInit ==
    /\ rooms = [rid \in RoomIds |-> NoRoomRec]
    /\ socketRoom = [s \in Sockets |-> NoRoom]
    /\ out = {}
    /\ match = NoMatch
    /\ \E names \in TeamNames : tournament = startTournamentOf(names)

LeagueMatch ==
    /\ tournament.stage = "league"
    /\ tournament.next <= Len(leagueFixtures(Len(tournament.teams)))
    /\ \E sc \in LeagueScores(Len(tournament.teams)) :
          tournament' = leagueMatch(tournament, sc[1], sc[2])
    /\ UNCHANGED <<rooms, socketRoom, out, match>>

Standings ==
    /\ tournament.stage = "league"
    /\ tournament.next > Len(leagueFixtures(Len(tournament.teams)))
    /\ tournament' = standings(tournament)
    /\ UNCHANGED <<rooms, socketRoom, out, match>>

PlayOff ==
    /\ tournament.stage = "playoffs"
    /\ \E score1 \in InningsScores, score2 \in InningsScores :
          tournament' = playOff(tournament, score1, score2)
    /\ UNCHANGED <<rooms, socketRoom, out, match>>

TournamentNext == LeagueMatch \/ Standings \/ PlayOff

TournamentSpec == TournamentInit /\ [][TournamentNext]_vars

-----------------------------------------------------------------------------
(* The state machine *)

Alive == \A rid \in RoomIds : ~rooms[rid].threw

\* A registry whose rooms share one pause flag.
CommitSharedPause(rid, r2) ==
    /\ rooms' = [x \in RoomIds |->
                   IF x = rid THEN [r2 EXCEPT !.out = {}]
                   ELSE [rooms[x] EXCEPT !.timerPaused = r2.timerPaused]]
    /\ out' = r2.out
    /\ UNCHANGED <<match, tournament>>

\* the handler has run on room rid and left it as r2
Commit(rid, r2) ==
    /\ rooms' = [rooms EXCEPT ![rid] = [r2 EXCEPT !.out = {}]]
    /\ out' = r2.out
    /\ UNCHANGED <<match, tournament>>

\* the handler returned without touching any room
Ignore == /\ out' = {}
          /\ UNCHANGED <<rooms, match, tournament>>

\* the registry as the process starts: const rooms = {}
InitEmpty ==
    /\ rooms = [rid \in RoomIds |-> NoRoomRec]
    /\ socketRoom = [s \in Sockets |-> NoRoom]
    /\ out = {}
    /\ match = NoMatch
    /\ tournament = NoTournament

CreateRoom(s, rid, pw) ==
    /\ Alive
    /\ Commit(rid, createRoom(rooms[rid], s, pw))
    /\ socketRoom' = IF rooms[rid].exists THEN socketRoom
                     ELSE [socketRoom EXCEPT ![s] = IF @ = NoRoom THEN rid ELSE @]

JoinRoom(s, rid, pw) ==
    /\ Alive
    /\ Commit(rid, joinRoomRequest(rooms[rid], s, pw))
    /\ socketRoom' = IF ~rooms[rid].exists \/ rooms[rid].password # pw
                     THEN socketRoom
                     ELSE [socketRoom EXCEPT ![s] = IF @ = NoRoom THEN rid ELSE @]

\* The disconnect event of connection s.  Whether socket.rooms still holds
\* the room when the event is delivered is the socket library's matter:
\* either getRoomId(socket) names the room, or it is undefined and the
\* handler does nothing.
Disconnect(s) ==
    /\ Alive
    /\ socketRoom[s] # Gone
    /\ socketRoom' = [socketRoom EXCEPT ![s] = Gone]
    /\ \/ /\ getRoomId(s) # NoRoom
          /\ Commit(getRoomId(s), disconnect(rooms[getRoomId(s)], s))
       \/ Ignore

UpdateLobbyTeams(s, teams) ==
    /\ Alive
    /\ UNCHANGED socketRoom
    /\ IF getRoomId(s) # NoRoom
       THEN Commit(getRoomId(s), updateLobbyTeams(rooms[getRoomId(s)], s, teams))
       ELSE Ignore

ClaimLobbyTeam(s, key) ==
    /\ Alive
    /\ UNCHANGED socketRoom
    /\ IF getRoomId(s) # NoRoom /\ rooms[getRoomId(s)].exists
       THEN Commit(getRoomId(s), claimLobbyTeam(rooms[getRoomId(s)], s, key))
       ELSE Ignore

StartAuction(s, queue) ==
    /\ Alive
    /\ UNCHANGED socketRoom
    /\ IF getRoomId(s) # NoRoom
       THEN Commit(getRoomId(s),
                   startAuctionRequest(rooms[getRoomId(s)], s,
                                       [teams |-> FreshTeams(2), queue |-> queue]))
       ELSE Ignore

PlaceBid(s, teamKey, amount) ==
    /\ Alive
    /\ UNCHANGED socketRoom
    /\ IF getRoomId(s) # NoRoom
       THEN Commit(getRoomId(s), placeBid(rooms[getRoomId(s)], s, teamKey, amount))
       ELSE Ignore

ToggleTimer(s) ==
    /\ Alive
    /\ UNCHANGED socketRoom
    /\ IF getRoomId(s) # NoRoom
       THEN Commit(getRoomId(s), toggleTimer(rooms[getRoomId(s)], s))
       ELSE Ignore

\* model bound: no sale is started once auctionIndex is MaxResales past the
\* end of the queue
SaleAllowed(r) == r.auctionIndex < Len(r.auctionQueue) + MaxResales

FinalizeSale(s) ==
    /\ Alive
    /\ UNCHANGED socketRoom
    /\ IF getRoomId(s) # NoRoom
       THEN \E payload \in SalePayloads :
               LET r2 == finalizeSale(rooms[getRoomId(s)], s, payload)
               IN  /\ \/ SaleAllowed(rooms[getRoomId(s)])
                      \/ r2.auctionIndex = rooms[getRoomId(s)].auctionIndex
                   /\ Commit(getRoomId(s), r2)
       ELSE Ignore

EndAuction(s) ==
    /\ Alive
    /\ UNCHANGED socketRoom
    /\ IF getRoomId(s) # NoRoom
       THEN Commit(getRoomId(s), endAuction(rooms[getRoomId(s)], s))
       ELSE Ignore

ReclaimTeam(s, key) ==
    /\ Alive
    /\ UNCHANGED socketRoom
    /\ IF getRoomId(s) # NoRoom
       THEN Commit(getRoomId(s), reclaimTeam(rooms[getRoomId(s)], s, key))
       ELSE Ignore

RequestReclaimManual(s, key) ==
    /\ Alive
    /\ UNCHANGED socketRoom
    /\ IF getRoomId(s) # NoRoom
       THEN Commit(getRoomId(s), requestReclaimManual(rooms[getRoomId(s)], s, key))
       ELSE Ignore

AdminRenameTeam(s, key, newName) ==
    /\ Alive
    /\ UNCHANGED socketRoom
    /\ IF getRoomId(s) # NoRoom
       THEN Commit(getRoomId(s), adminRenameTeam(rooms[getRoomId(s)], s, key, newName))
       ELSE Ignore

AdminReclaimDecision(s, d) ==
    /\ Alive
    /\ UNCHANGED socketRoom
    /\ IF getRoomId(s) # NoRoom
       THEN Commit(getRoomId(s), adminReclaimDecision(rooms[getRoomId(s)], s, d))
       ELSE Ignore

StartTournament(s) ==
    /\ Alive
    /\ UNCHANGED socketRoom
    /\ IF getRoomId(s) # NoRoom
       THEN Commit(getRoomId(s), startTournament(rooms[getRoomId(s)], s))
       ELSE Ignore

\* a TypeError outside any room ends the process all the same
SubmitSquad(s, p) ==
    /\ Alive
    /\ UNCHANGED socketRoom
    /\ IF getRoomId(s) # NoRoom
       THEN Commit(getRoomId(s), submitSquad(rooms[getRoomId(s)], s, p))
       ELSE IF ~p.given
       THEN Commit("R1", [rooms["R1"] EXCEPT !.threw = TRUE])
       ELSE Ignore

\* the interval callback of room rid is due
TimerTick(rid) ==
    /\ Alive
    /\ rooms[rid].exists
    /\ rooms[rid].timerInterval
    /\ rooms[rid].fireIn = 0
    /\ \/ SaleAllowed(rooms[rid])
       \/ intervalCallback(rooms[rid]).auctionIndex = rooms[rid].auctionIndex
    /\ Commit(rid, intervalCallback(rooms[rid]))
    /\ UNCHANGED socketRoom

\* the oldest pending advance callback of room rid is due
AdvanceLot(rid) ==
    /\ Alive
    /\ rooms[rid].timeouts # <<>>
    /\ Head(rooms[rid].timeouts).in = 0
    /\ Commit(rid, advanceCallback(rooms[rid]))
    /\ UNCHANGED socketRoom

CallbackDue(r) ==
    \/ r.timerInterval /\ r.fireIn = 0
    \/ r.timeouts # <<>> /\ Head(r.timeouts).in = 0

\* one step of time passes in room r
Elapse(r) ==
    [r EXCEPT !.timerEndIn = IF r.timerInterval THEN @ - 1 ELSE @,
              !.fireIn = IF r.timerInterval THEN @ - 1 ELSE @,
              !.timeouts = [k \in 1..Len(@) |-> [@[k] EXCEPT !.in = @ - 1]]]

Advance ==
    /\ Alive
    /\ \A rid \in RoomIds : ~CallbackDue(rooms[rid])
    /\ \E rid \in RoomIds : rooms[rid].timerInterval \/ rooms[rid].timeouts # <<>>
    /\ rooms' = [rid \in RoomIds |-> Elapse(rooms[rid])]
    /\ out' = {}
    /\ UNCHANGED <<socketRoom, match, tournament>>

-----------------------------------------------------------------------------
(* Specifications *)

\* Every handler, from the empty registry.
LobbyNext ==
    \/ \E s \in Sockets, rid \in RoomIds, pw \in CreatePasswords : CreateRoom(s, rid, pw)
    \/ \E s \in Sockets, rid \in RoomIds, pw \in Passwords : JoinRoom(s, rid, pw)
    \/ \E s \in Sockets, n \in TeamCounts : UpdateLobbyTeams(s, FreshTeams(n))
    \/ \E s \in Sockets, key \in TeamKeys : ClaimLobbyTeam(s, key)

LobbySpec == InitEmpty /\ [][LobbyNext]_vars

\* The lobby once s1 has created room R1 and sent the list of two teams, s1
\* has claimed T0, s2 and s3 have joined and s2 has claimed T1.
ReadyRoom ==
    [NewRoom("s1", "pw") EXCEPT
       !.users = {"s1", "s2", "s3"},
       !.teams = [i \in 1..2 |->
                    [FreshTeam(TeamKey(i)) EXCEPT
                       !.isTaken = TRUE,
                       !.ownerSocketId = IF i = 1 THEN "s1" ELSE "s2",
                       !.ownerPlayerId = PlayerIdOf(IF i = 1 THEN "s1" ELSE "s2")]]]

Init ==
    /\ rooms = [rid \in RoomIds |-> IF rid = "R1" THEN ReadyRoom ELSE NoRoomRec]
    /\ socketRoom = [s \in Sockets |-> "R1"]
    /\ out = {}
    /\ match = NoMatch
    /\ tournament = NoTournament

Callbacks ==
    \/ \E rid \in RoomIds : TimerTick(rid)
    \/ \E rid \in RoomIds : AdvanceLot(rid)
    \/ Advance

\* The connections that bid during the auction: the admin, who owns T0, and
\* s3, the new connection of the participant who owns T1.
Active == {"s1", "s3"}

\* The auction of a queue of at most one lot: every bid, from both, and every
\* request of the admin, at any moment.  (The admin-only requests of other
\* connections are those of AdminSpec.)
Next ==
    \/ \E queue \in Queues : StartAuction("s1", queue)
    \/ \E s \in Active, key \in TeamKeys, amount \in BidAmounts : PlaceBid(s, key, amount)
    \/ ToggleTimer("s1")
    \/ FinalizeSale("s1")
    \/ EndAuction("s1")
    \/ Callbacks

Spec == Init /\ [][Next]_vars

\* The same auction while the admin also replaces the team list.
TeamsNext ==
    \/ \E n \in TeamCounts : UpdateLobbyTeams("s1", FreshTeams(n))
    \/ \E queue \in Queues : StartAuction("s1", queue)
    \/ \E s \in {"s1", "s2"}, key \in TeamKeys, amount \in 1..StartBudget : PlaceBid(s, key, amount)
    \/ FinalizeSale("s1")
    \/ Callbacks

TeamsSpec == Init /\ [][TeamsNext]_vars

\* Queues of up to two lots, restarted and finalized by the admin.
RestartNext ==
    \/ \E queue \in LongQueues : StartAuction("s1", queue)
    \/ \E amount \in 1..StartBudget : PlaceBid("s2", "T1", amount)
    \/ FinalizeSale("s1")
    \/ Callbacks

RestartSpec == Init /\ [][RestartNext]_vars

\* The room once the admin has started the auction of two lots from the
\* lobby: L1 is on offer and its countdown has just begun.
StartedRoom ==
    [startAuctionRequest(ReadyRoom, "s1",
                         [teams |-> FreshTeams(2),
                          queue |-> <<Lot(1, NONE), Lot(2, NONE)>>])
       EXCEPT !.out = {}]

StartedInit ==
    /\ rooms = [rid \in RoomIds |-> IF rid = "R1" THEN StartedRoom ELSE NoRoomRec]
    /\ socketRoom = [s \in Sockets |-> "R1"]
    /\ out = {}
    /\ match = NoMatch
    /\ tournament = NoTournament

\* The started auction with an admin who pauses, resumes and finalizes.
PauseNext ==
    \/ ToggleTimer("s1")
    \/ FinalizeSale("s1")
    \/ Callbacks

PauseSpec == StartedInit /\ [][PauseNext]_vars

\* The started auction, driven by bids and the countdown, which the admin
\* ends at any moment.
EndNext ==
    \/ \E amount \in 1..StartBudget : PlaceBid("s1", "T0", amount)
    \/ EndAuction("s1")
    \/ Callbacks

EndSpec == StartedInit /\ [][EndNext]_vars

\* The started auction with bids of the admin's team, which the admin ends;
\* squads are submitted and the admin asks for the tournament.
SquadNext ==
    \/ PlaceBid("s1", "T0", 1)
    \/ EndAuction("s1")
    \/ \E s \in {"s1", "s2"}, p \in SquadPayloads : SubmitSquad(s, p)
    \/ StartTournament("s1")
    \/ Callbacks

SquadSpec == StartedInit /\ [][SquadNext]_vars

\* The lobby once s1 has created room R1 and sent the list of two teams and
\* s2 and s3 have joined: no team is claimed yet.
LobbyRoom ==
    [NewRoom("s1", "pw") EXCEPT !.users = {"s1", "s2", "s3"},
                                !.teams = FreshTeams(2)]

LobbyInit ==
    /\ rooms = [rid \in RoomIds |-> IF rid = "R1" THEN LobbyRoom ELSE NoRoomRec]
    /\ socketRoom = [s \in Sockets |-> "R1"]
    /\ out = {}
    /\ match = NoMatch
    /\ tournament = NoTournament

\* Claims, then auctions of resumed queues started by the admin or by s2.
StartNext ==
    \/ \E s \in {"s1", "s2"}, key \in TeamKeys : ClaimLobbyTeam(s, key)
    \/ \E s \in {"s1", "s2"}, queue \in ResumeQueues : StartAuction(s, queue)
    \/ \E amount \in 1..StartBudget : PlaceBid("s1", "T0", amount)
    \/ Callbacks

StartSpec == LobbyInit /\ [][StartNext]_vars

\* Ownership of the teams in the lobby: claims, reclaims, joins, reclaim
\* requests and the admin's answers.
OwnerNext ==
    \/ \E s \in Sockets, key \in TeamKeys : ClaimLobbyTeam(s, key)
    \/ \E s \in Sockets, key \in TeamKeys : ReclaimTeam(s, key)
    \/ \E s \in Sockets, pw \in Passwords : JoinRoom(s, "R1", pw)
    \/ \E s \in Sockets, key \in TeamKeys : RequestReclaimManual(s, key)
    \/ \E d \in ReclaimDecisions : AdminReclaimDecision("s1", d)

OwnerSpec == LobbyInit /\ [][OwnerNext]_vars

\* The registry from the start of the process: rooms are created and
\* joined, under either code, and the team list is sent (an admin-only
\* request).
AuthorityNext ==
    \/ \E s \in Sockets, rid \in RoomIds, pw \in CreatePasswords : CreateRoom(s, rid, pw)
    \/ \E s \in Sockets, rid \in RoomIds, pw \in Passwords : JoinRoom(s, rid, pw)
    \/ \E s \in Sockets : UpdateLobbyTeams(s, FreshTeams(1))

AuthoritySpec == InitEmpty /\ [][AuthorityNext]_vars

\* The life of the rooms: connections create, join and disconnect; a
\* connection that has disconnected sends nothing more.
LifetimeNext ==
    \/ \E s \in Sockets, rid \in RoomIds, pw \in CreatePasswords :
          socketRoom[s] # Gone /\ CreateRoom(s, rid, pw)
    \/ \E s \in Sockets, rid \in RoomIds, pw \in Passwords :
          socketRoom[s] # Gone /\ JoinRoom(s, rid, pw)
    \/ \E s \in Sockets : Disconnect(s)

LifetimeSpec == InitEmpty /\ [][LifetimeNext]_vars

\* Two rooms at once: in R1 the auction s1 has started, with s3 the owner
\* of T1; in R2 the lobby s2 has created, with its own team list and its
\* team claimed, from which s2 starts an auction of one lot.
OtherRoom ==
    [NewRoom("s2", "pw") EXCEPT
       !.teams = [i \in 1..1 |-> [FreshTeam("T0") EXCEPT !.isTaken = TRUE,
                                                        !.ownerSocketId = "s2",
                                                        !.ownerPlayerId = "pB"]]]

TwoRoomsInit ==
    /\ rooms = [rid \in RoomIds |->
                  IF rid = "R1"
                  THEN [StartedRoom EXCEPT !.users = {"s1", "s3"},
                                           !.teams[2].ownerSocketId = "s3"]
                  ELSE OtherRoom]
    /\ socketRoom = [s \in Sockets |-> IF s = "s2" THEN "R2" ELSE "R1"]
    /\ out = {}
    /\ match = NoMatch
    /\ tournament = NoTournament

TwoRoomsNext ==
    \/ StartAuction("s2", <<Lot(1, NONE)>>)
    \/ PlaceBid("s2", "T0", 1)
    \/ ToggleTimer("s1")
    \/ Callbacks

TwoRoomsSpec == TwoRoomsInit /\ [][TwoRoomsNext]_vars

\* Every admin-only request, from the admin s1 and from s2, who is not the
\* admin.
AdminRequests(s) ==
    \/ \E queue \in Queues : StartAuction(s, queue)
    \/ ToggleTimer(s)
    \/ FinalizeSale(s)
    \/ EndAuction(s)
    \/ \E newName \in NewNames : AdminRenameTeam(s, "T0", newName)
    \/ UpdateLobbyTeams(s, FreshTeams(2))
    \/ \E d \in ReclaimDecisions : d.teamKey = "T0" /\ d.requesterId = "s2"
                                     /\ AdminReclaimDecision(s, d)
    \/ StartTournament(s)

AdminNext ==
    \/ AdminRequests("s1")
    \/ AdminRequests("s2")
    \/ Callbacks

AdminSpec == Init /\ [][AdminNext]_vars

\* The started auction with bids of the admin's team and sales by the
\* countdown or by the admin.
SaleNext ==
    \/ \E amount \in 1..StartBudget : PlaceBid("s1", "T0", amount)
    \/ FinalizeSale("s1")
    \/ Callbacks

SaleSpec == StartedInit /\ [][SaleNext]_vars

\* The same behaviours under the scheduling of the event loop: a callback
\* that is due runs (setInterval, setTimeout), and time passes when none is
\* due.
Scheduling ==
    /\ WF_vars(TimerTick("R1"))
    /\ WF_vars(AdvanceLot("R1"))
    /\ WF_vars(Advance)

LiveSpec == StartedInit /\ [][PauseNext]_vars /\ Scheduling

-----------------------------------------------------------------------------
(* Properties *)

Room == rooms["R1"]

Emitted(ev) == <<ev, "room">> \in out

\* what the claims call a team's budget and roster
Holdings(r) ==
    [i \in 1..Len(r.teams) |->
        [bidKey |-> r.teams[i].bidKey, budget |-> r.teams[i].budget,
         roster |-> r.teams[i].roster]]

Statuses(r) == [i \in 1..Len(r.auctionQueue) |-> r.auctionQueue[i].status]

Clock(r) == <<r.timer, r.timerInterval, r.timerPaused, r.timerEndIn, r.fireIn>>

FullTime == AUCTION_TIMER_SECONDS * StepsPerSecond

\* C1: over bids, expiries and finalize-sale requests (every step that is
\* not a start_auction), a lot status that is set never changes, and while
\* the current lot is already resolved no lot status, roster or budget
\* changes.
C1_StatusAssignedOnce ==
    [][Emitted("auction_started")' \/
         /\ \A i \in 1..Len(Room.auctionQueue) :
               Room.auctionQueue[i].status # NONE =>
                  Room'.auctionQueue[i].status = Room.auctionQueue[i].status
         /\ (Room.currentPlayer # NoPlayer /\ Room.currentPlayer.status # NONE) =>
               /\ Statuses(Room') = Statuses(Room)
               /\ Holdings(Room') = Holdings(Room)]_vars

\* C2: once start_auction has given the teams their rosters, the purchase
\* prices in every team's roster sum to its starting budget minus its budget.
C2_RosterSum ==
    \A i \in 1..Len(Room.teams) :
        Room.teams[i].hasRoster =>
            SumPrices(Room.teams[i].roster) = StartBudget - Room.teams[i].budget

\* C3: no team's budget is ever negative.
C3_BudgetNonNegative ==
    \A i \in 1..Len(Room.teams) : Room.teams[i].budget >= 0

\* C4: each accepted bid that follows another accepted bid on the lot on
\* offer is strictly higher than it, and the bidding team's budget at
\* acceptance is at least the amount.
C4_BidsIncrease ==
    [][Emitted("bid_update")' =>
         /\ Room.bidCount >= 1 => Room'.currentBid > Room.currentBid
         /\ LET ti == TeamIndex(Room.teams, Room'.currentBidder)
            IN  ti # 0 /\ Room.teams[ti].budget >= Room'.currentBid]_vars

C4_Witness == Emitted("bid_update") /\ Room.bidCount = 2

\* C5: the first bid accepted on a lot equals its base price and no bid
\* below the base price is accepted.
C5_NoBidBelowBase ==
    [][Emitted("bid_update")' =>
         /\ Room'.currentBid >= Room.currentPlayer.basePrice
         /\ Room.bidCount = 0 => Room'.currentBid = Room.currentPlayer.basePrice]_vars

\* C6: a place_bid that arrives while the auction is not active, the clock
\* is paused, a sale is in progress, there is no current lot, or the named
\* team is already the high bidder leaves the current bid, the high bidder
\* and the countdown as they are, and no bid is announced: in every
\* reachable state the handler does so for every request.
C6_Rejects(r, key) ==
    \/ ~r.isActive
    \/ r.timerPaused
    \/ r.sellingInProgress
    \/ r.currentPlayer = NoPlayer
    \/ r.currentBidder = key

C6_BidRejected ==
    \A s \in Sockets, key \in TeamKeys, amount \in BidAmounts :
        C6_Rejects(Room, key) =>
            \A r2 \in {placeBid(Room, s, key, amount)} :
                /\ r2.currentBid = Room.currentBid
                /\ r2.currentBidder = Room.currentBidder
                /\ Clock(r2) = Clock(Room)
                /\ <<"bid_update", "room">> \notin r2.out

\* s1 does not control T1: the notice shows that s1 has just named T1, the
\* high bidder, in a place_bid
C6_Witness ==
    /\ out = {<<"error_message: Authorization Failed", "s1">>}
    /\ Room.currentBidder = "T1"
    /\ Room.isActive /\ ~Room.timerPaused /\ ~Room.sellingInProgress

Unauthorized(r, s, key) ==
    \E ti \in {TeamIndex(r.teams, key)} \ {0} :
       /\ r.teams[ti].ownerSocketId # s
       /\ r.teams[ti].ownerPlayerId # PlayerIdOf(s)

\* C7 as stated: a place_bid from a connection that neither is the team's
\* owning connection nor presents its owner identity changes neither the
\* current bid nor the high bidder and draws an error notice to the
\* requester only.
C7_Original ==
    \A s \in Sockets, key \in TeamKeys, amount \in BidAmounts :
        Unauthorized(Room, s, key) =>
            LET r2 == placeBid(Room, s, key, amount)
            IN  /\ r2.currentBid = Room.currentBid
                /\ r2.currentBidder = Room.currentBidder
                /\ r2.out = {<<"error_message: Authorization Failed", s>>}

\* C7 amended: such a place_bid changes nothing in the room; the notice goes
\* to the requester only, and is sent exactly when the request passes the
\* state checks (active, unpaused, no sale in progress, a current lot).
C7_Authorization ==
    \A s \in Sockets, key \in TeamKeys :
        Unauthorized(Room, s, key) =>
          \A amount \in BidAmounts :
            \A r2 \in {placeBid(Room, s, key, amount)} :
                /\ [r2 EXCEPT !.out = {}] = Room
                /\ r2.out = IF \/ ~Room.isActive
                               \/ Room.timerPaused
                               \/ Room.sellingInProgress
                               \/ Room.currentPlayer = NoPlayer
                            THEN {}
                            ELSE {<<"error_message: Authorization Failed", s>>}

C7_Witness ==
    /\ out = {<<"error_message: Authorization Failed", "s3">>}
    /\ Room.currentBidder = "T1"

\* C8: a sale with a recorded high bidder marks the lot sold, takes the
\* recorded bid from exactly that team's budget and appends the lot at that
\* price to exactly that team's roster; a sale with no bidder marks the lot
\* unsold and changes no budget or roster.
C8_SaleFrame ==
    [][Emitted("timer_ended")' =>
         LET ti == TeamIndex(Room.teams, Room.currentBidder) IN
         IF Room.currentBidder # NoBidder
         THEN /\ ti # 0
              /\ Room'.currentPlayer.status = "SOLD"
              /\ Holdings(Room') =
                    [Holdings(Room) EXCEPT
                       ![ti].budget = @ - Room.currentBid,
                       ![ti].roster = Append(@, [name |-> Room.currentPlayer.name,
                                                 price |-> Room.currentBid])]
         ELSE /\ Room'.currentPlayer.status = "UNSOLD"
              /\ Holdings(Room') = Holdings(Room)]_vars

C10_Original ==
    [][Emitted("bid_update")' => Room'.timerEndIn = FullTime]_vars

\* C10 amended: an accepted bid restarts the countdown from its full
\* duration, unless the countdown is running and its recorded remaining time
\* is above AUCTION_TIMER_SECONDS - 2; it is then left running as it is.
C10_Restart ==
    [][Emitted("bid_update")' =>
         IF Room.timerInterval /\ Room.timer > AUCTION_TIMER_SECONDS - 2
         THEN Clock(Room') = Clock(Room)
         ELSE Clock(Room') = <<AUCTION_TIMER_SECONDS, TRUE, FALSE, FullTime,
                               StepsPerSecond>>]_vars

C10_Witness ==
    /\ Emitted("bid_update") /\ Emitted("timer_tick")
    /\ Room.timerEndIn = FullTime
    /\ Room.bidCount = 2

\* C11: when an accepted toggle_timer resumes a countdown that an accepted
\* toggle_timer paused, the time left is the time that was left at the
\* moment of the pause, however long the pause and however many interval
\* callbacks fired during it.
C11_NoDrift ==
    [][(Room.pause.on /\ Room.pause.live /\ out' = {<<"timer_status", "room">>})
          => Room'.timerEndIn = Room.pause.left]_vars

\* C12: while a pause of the admin is in force, every step that is not an
\* accepted toggle_timer leaves the clock paused, emits no timer_tick (so no
\* sale by expiry) and does not lower the recorded remaining time.
C12_StaysPaused ==
    [][(Room.pause.on /\ out' # {<<"timer_status", "room">>})
          => /\ Room'.timerPaused
             /\ ~Emitted("timer_tick")'
             /\ Room'.timer >= Room.timer]_vars

\* C13: once end_auction_trigger is accepted (and until a start_auction) no
\* timer_tick, update_lot or sale_finalized is emitted.
C13_CancelledForGood ==
    [][(~Room.isActive /\ ~Room'.isActive)
          => /\ ~Emitted("timer_tick")'
             /\ ~Emitted("update_lot")'
             /\ ~Emitted("sale_finalized")']_vars

\* C14: if the clock is never left paused forever (and the admin never ends
\* the auction), every lot of the queue is eventually marked sold or unsold
\* and squad-selection-opened is eventually emitted.
AllMarked == \A i \in 1..Len(Room.auctionQueue) : Room.auctionQueue[i].status # NONE

C14_Terminates ==
    ([]<>(~Room.timerPaused)) => (<>AllMarked /\ <>Emitted("open_squad_selection"))

\* C15: the outcome of finalize-sale depends only on the room's recorded high
\* bidder and bid: from the same room state, requests with different
\* parameters give the same room state and the same broadcast, and the lot is
\* sold exactly when a high bidder is recorded, to that bidder at that bid.
SaleOutcome(r, r2) ==
    r2.auctionIndex = r.auctionIndex + 1
      => LET ti == IF r.currentBidder # NoBidder
                   THEN TeamIndex(r.teams, r.currentBidder) ELSE 0
         IN  /\ r2.currentPlayer.status = IF ti # 0 THEN "SOLD" ELSE "UNSOLD"
             /\ ti # 0 => /\ r2.teams[ti].budget = r.teams[ti].budget - r.currentBid
                          /\ r2.teams[ti].roster[Len(r2.teams[ti].roster)].price = r.currentBid
             /\ \A k \in 1..Len(r.teams) : k # ti => r2.teams[k] = r.teams[k]

C15_SaleFromRecord ==
    \A s \in Sockets, p1 \in SalePayloads :
       /\ SaleOutcome(Room, finalizeSale(Room, s, p1))
       /\ \A p2 \in SalePayloads :
             finalizeSale(Room, s, p1) = finalizeSale(Room, s, p2)

\* the admin has just finalized the sale of a lot with a recorded bidder
C15_Witness ==
    /\ Emitted("sale_finalized")
    /\ Room.timer > 0
    /\ Room.currentPlayer.status = "SOLD"

\* C16: start-auction is accepted only from the current admin, and once
\* accepted the room's teams are exactly the teams claimed at that moment, each
\* with an empty roster, whatever team list the request carries.
StartPayloads == [teams : TeamPayloads, queue : ResumeQueues]

C17_NonAdminIgnored ==
    \A s \in Sockets :
       Room.adminSocketId # s =>
          /\ \A payload \in StartPayloads : startAuctionRequest(Room, s, payload) = Room
          /\ toggleTimer(Room, s) = Room
          /\ \A payload \in SalePayloads : finalizeSale(Room, s, payload) = Room
          /\ endAuction(Room, s) = Room
          /\ \A key \in TeamKeys, newName \in NewNames :
                adminRenameTeam(Room, s, key, newName) = Room
          /\ \A teams \in TeamPayloads : updateLobbyTeams(Room, s, teams) = Room
          /\ \A d \in ReclaimDecisions : adminReclaimDecision(Room, s, d) = Room
          /\ startTournament(Room, s) = Room

\* A countdown that has just started, with the notices of its start gone and
\* no time passed: a request has been handled since without any effect.  Every
\* request of the admin emits in this state, so the request was one of s2.
C17_Witness ==
    /\ out = {}
    /\ match = NoMatch
    /\ tournament = NoTournament
    /\ Room.isActive /\ Room.timerInterval /\ ~Room.timerPaused
    /\ Room.timerEndIn = FullTime /\ Room.fireIn = StepsPerSecond
    /\ Room.adminSocketId = "s1"
    /\ Len(Room.teams) = 2

\* C18: a lot whose status is set is not offered: whenever a lot is put up
\* (lot-update), it is the first lot in queue order whose status is unset, and
\* the statuses of the queue are as the step found them.
C18_FirstUnsetOffered ==
    [][Emitted("update_lot")' =>
          LET q == Room'.auctionQueue
              i == Room'.currentPlayer.idx
          IN  /\ i \in 1..Len(q)
              /\ q[i].status = NONE
              /\ \A j \in 1..(i - 1) : q[j].status # NONE
              /\ ~Emitted("auction_started")' => Statuses(Room') = Statuses(Room)]_vars

\* C19: starting an auction with an empty lot queue emits
\* squad-selection-opened in the same step, emits no lot-update and does not
\* start the countdown (the clock is left as it was); and no lot-update is
\* emitted for as long as the queue is empty.
C19_EmptyQueue ==
    [][/\ (Emitted("auction_started")' /\ Room'.auctionQueue = <<>>)
           => /\ Emitted("open_squad_selection")'
              /\ ~Emitted("update_lot")'
              /\ ~Emitted("timer_tick")'
              /\ Clock(Room') = Clock(Room)
       /\ Room'.auctionQueue = <<>> => ~Emitted("update_lot")']_vars

\* an auction of no lot has just been started from the lobby
C19_Witness ==
    /\ out = {<<"auction_started", "room">>, <<"open_squad_selection", "room">>}
    /\ Room.auctionQueue = <<>>
    /\ Room.isActive /\ ~Room.timerInterval
    /\ Room.currentPlayer = NoPlayer

\* C20: in every reachable state of a room no participant identity owns more
\* than one team.
C20_OneTeamPerIdentity ==
    \A i, j \in 1..Len(Room.teams) :
       (i # j /\ Room.teams[i].ownerPlayerId # NoPlayerId)
          => Room.teams[i].ownerPlayerId # Room.teams[j].ownerPlayerId

\* C21: at most one connection is treated as admin of a room; when a
\* connection presenting the creator's identity joins the room, that
\* connection is treated as its admin from then on and no other is; a joiner
\* with another identity leaves the admin as it was.
TreatedAsAdmin(rid, r, sr) == {s \in Sockets : sr[s] = rid /\ isAdminOf(r, s)}

\* the step is an accepted join_room of s to room rid that changed the room
JoinedBy(s, rid) ==
    /\ <<"room_joined", s>> \in out'
    /\ rooms[rid].exists
    /\ rooms'[rid] # rooms[rid]

C21_AdminMoves ==
    [][\A rid \in RoomIds :
         /\ Cardinality(TreatedAsAdmin(rid, rooms'[rid], socketRoom')) <= 1
         /\ \A s \in Sockets :
               JoinedBy(s, rid) =>
                  IF PlayerIdOf(s) = rooms[rid].adminPlayerId
                  THEN TreatedAsAdmin(rid, rooms'[rid], socketRoom') = {s}
                  ELSE rooms'[rid].adminSocketId = rooms[rid].adminSocketId]_vars

\* C22: create-room with a code that is live fails with an error notice to
\* the requester only, and leaves the room (secret, admin, participants,
\* teams, auction state) and the requester's room membership unchanged.
C22_RoomExists ==
    /\ \A rid \in RoomIds, s \in Sockets, pw \in Passwords :
          rooms[rid].exists =>
             createRoom(rooms[rid], s, pw)
                = [rooms[rid] EXCEPT !.out = {<<"error_message: Room Exists!", s>>}]
    /\ (\E s \in Sockets : out = {<<"error_message: Room Exists!", s>>})
          => \A s \in Sockets : socketRoom[s] = NoRoom => \A rid \in RoomIds : s \notin rooms[rid].users

\* s2, who is in no room, has just asked for a code that s1 holds with its
\* team list sent
C22_Witness ==
    /\ out = {<<"error_message: Room Exists!", "s2">>}
    /\ socketRoom["s2"] = NoRoom
    /\ rooms["R1"].adminSocketId = "s1"
    /\ Len(rooms["R1"].teams) = 1

\* C23: join-room with an unknown code or a secret that is not exactly the
\* room's fails with an error notice to the requester only; the requester is
\* added to no participant list and no admin or team-owner handle changes.
C23_BadJoin ==
    \A rid \in RoomIds, s \in Sockets, pw \in Passwords :
       (~rooms[rid].exists \/ rooms[rid].password # pw) =>
          joinRoomRequest(rooms[rid], s, pw)
             = [rooms[rid] EXCEPT !.out = {<<"error_message: Invalid Credentials", s>>}]

\* s3, who shares the identity of the admin s2 of R1, has just been refused
C23_Witness ==
    /\ out = {<<"error_message: Invalid Credentials", "s3">>}
    /\ rooms["R1"].exists /\ rooms["R1"].adminSocketId = "s2"
    /\ "s3" \notin rooms["R1"].users
    /\ ~rooms["R2"].exists

\* C24: a room none of whose participants is connected any more, with no
\* auction active, is not in the registry (so its code is not joinable and
\* can be created again).
C24_EmptyRoomRemoved ==
    \A rid \in RoomIds :
       (rooms[rid].exists /\ ~rooms[rid].isActive) =>
          \E s \in Sockets : socketRoom[s] # Gone /\ s \in rooms[rid].users

\* C25: rooms are independent: a step that handles a request or a callback
\* changes the state of at most one room (the passing of time alone advances
\* every room's clock).
Changed == {rid \in RoomIds : rooms'[rid] # rooms[rid]}

ValidSquad(r, s, p) ==
    /\ p.given /\ p.hasPlaying11
    /\ Len(p.playing11) = SquadSize
    /\ \E ti \in {TeamIndex(r.teams, p.teamKey)} \ {0} :
          /\ r.teams[ti].isTaken
          /\ r.teams[ti].ownerSocketId = s
          /\ \A i \in 1..Len(p.playing11) :
                InSeq(p.playing11[i], NamesOf(r.teams[ti].roster))
          /\ InSeq(p.impact, NamesOf(r.teams[ti].roster))
          /\ InSeq(p.captain, p.playing11)

\* C26: the recorded squads (and with them the submission count) change
\* only by a submit-squad that names eleven starters, a reserve and a
\* captain from the team's roster and comes from the team's controller;
\* every other submission leaves them unchanged.
C26_OnlyValidSquads ==
    [][Room.squads' # Room.squads =>
         \E s \in Sockets, p \in SquadPayloads : ValidSquad(Room, s, p)]_vars

\* C27: the simulation engine runs at most once per room: once it has run,
\* no later request broadcasts a tournament result again.
C27_EngineOnce ==
    [][Room.simulated => ~Emitted("tournamentComplete")']_vars

\* C28: no request, whatever its payload lacks, raises an error that no
\* handler catches.
C28_NoUnhandledFailure == \A rid \in RoomIds : ~rooms[rid].threw

\* C29: in every simulated innings, whatever the sizes of the two playing
\* elevens, at most 120 deliveries are bowled and no bowler bowls more than
\* 24 of them.
C29_QuotaKept ==
    /\ match.ball - 1 <= BallsPerInnings
    /\ \A q \in DOMAIN match.bowled : match.bowled[q] <= BowlerQuota

\* an innings is over by the rules: ten wickets, 120 deliveries, or in the
\* second innings a score above the first innings' score
Finished(m) ==
    \/ m.wickets >= AllOut
    \/ m.ball - 1 >= BallsPerInnings
    \/ m.stage = "second" /\ m.score > m.target

\* C30: no ball is bowled in an innings that is over: after ten wickets,
\* after 120 deliveries, or in the second innings once the score exceeds
\* the first innings' score, whatever that score was.
C30_StopsAtOnce ==
    [][(match'.stage = match.stage /\ match'.ball = match.ball + 1)
          => ~Finished(match)]_vars

\* what a bid or a sale changes: the current bid and high bidder, the lot
\* statuses, and the teams' rosters and budgets
AuctionBooks(r) ==
    <<r.currentBid, r.currentBidder, r.currentPlayer.status,
      [i \in 1..Len(r.auctionQueue) |-> r.auctionQueue[i].status],
      [i \in 1..Len(r.teams) |-> <<r.teams[i].roster, r.teams[i].budget>>]>>

\* C36: once squad selection has been announced, no bid is accepted and no
\* sale is performed: the step that follows the announcement leaves the
\* current bid and high bidder, every lot status and every team's roster and
\* budget unchanged.
C36_ClosedForBids ==
    [][Emitted("open_squad_selection") => AuctionBooks(Room)' = AuctionBooks(Room)]_vars

\* C37: a start-auction sent once the auction is active takes no effect: the
\* teams' rosters and budgets, the lot queue, the current lot and the
\* current bid and high bidder stay as they are.
C37_StartOnlyInLobby ==
    [][(Room.isActive /\ Emitted("auction_started")')
          => /\ AuctionBooks(Room)' = AuctionBooks(Room)
             /\ Room'.auctionQueue = Room.auctionQueue
             /\ Room'.currentPlayer = Room.currentPlayer]_vars

\* C38: while bidding is in progress (the auction is active and a lot's
\* countdown is running) no tournament result and no simulation error is
\* broadcast.
C38_NoEarlyTournament ==
    (Room.isActive /\ Room.timerInterval)
       => ~Emitted("tournamentComplete") /\ ~Emitted("simulation_error")

\* script.js: the server events the client registers a listener for
ClientListeners ==
    {"roomcreated", "room_joined", "sync_data", "error_message",
     "lobby_update", "team_claim_success", "auction_started", "update_lot",
     "bid_update", "timer_tick", "timer_status", "timer_ended",
     "sale_finalized", "open_squad_selection", "squad_submission_update",
     "simulation_error", "tournament_results", "pongServer"}

\* C39: the event that carries the tournament result to the room is one the
\* client listens for, so that every participant records the result.
C39_ResultHeard ==
    \A e \in out :
       (e[2] = "room" /\ e[1] = "tournamentComplete") => e[1] \in ClientListeners

\* C40: the ball count an innings reports is the number of deliveries bowled
\* in it, the sum of its bowlers' ball counts.
C40_BallsReported ==
    match.stage \in {"first", "second", "done"} => match.balls = match.ball - 1

\* the side that did not win a match
LoserOf(res) == IF res.winnerName = res.t1 THEN res.t2 ELSE res.t1

\* C31: a tournament of two teams plays one play-off match, the Final; its
\* winner is the champion, its loser the runner-up, and the two differ.
C31_TwoTeamFinal ==
    (tournament.stage = "done" /\ Len(tournament.teams) = 2)
       => /\ Len(tournament.playoffs) = 1
          /\ tournament.playoffs[1].type = "FINAL"
          /\ tournament.winner = tournament.playoffs[1].winnerName
          /\ tournament.runnerUp = LoserOf(tournament.playoffs[1])
          /\ tournament.winner # tournament.runnerUp

\* C32: a tournament of four teams or more plays four play-off matches:
\* Qualifier 1 between the first and second of the standings, the Eliminator
\* between the third and fourth, Qualifier 2 between the loser of Qualifier 1
\* and the winner of the Eliminator, and the Final between the winners of
\* Qualifier 1 and Qualifier 2; the Final's winner is the champion, its loser
\* the runner-up, and the two differ.
C32_FourPlayOffs ==
    (tournament.stage = "done" /\ Len(tournament.teams) >= PlayOffTeams)
       => LET po == tournament.playoffs
              teams == tournament.teams
          IN  /\ Len(po) = 4
              /\ po[1].type = "Qualifier 1"
              /\ <<po[1].t1, po[1].t2>> = <<teams[1].name, teams[2].name>>
              /\ po[2].type = "Eliminator"
              /\ <<po[2].t1, po[2].t2>> = <<teams[3].name, teams[4].name>>
              /\ po[3].type = "Qualifier 2"
              /\ <<po[3].t1, po[3].t2>> = <<LoserOf(po[1]), po[2].winnerName>>
              /\ po[4].type = "FINAL"
              /\ <<po[4].t1, po[4].t2>> = <<po[1].winnerName, po[3].winnerName>>
              /\ tournament.winner = po[4].winnerName
              /\ tournament.runnerUp = LoserOf(po[4])
              /\ tournament.winner # tournament.runnerUp

\* four teams, and the Final is won by the winner of Qualifier 2, who was not
\* second in the league
C32_Witness ==
    /\ tournament.stage = "done"
    /\ Len(tournament.teams) = 4
    /\ tournament.winner = tournament.playoffs[3].winnerName
    /\ tournament.runnerUp # tournament.teams[2].name

\* how often a appears in seq
CountIn(seq, a) == Cardinality({k \in 1..Len(seq) : seq[k] = a})

\* C33: once the league is played, every ordered pair of distinct teams has
\* met exactly once, n * (n - 1) matches in all, and every team has played
\* 2 * (n - 1) league matches and batted first in n - 1 of them.
C33_DoubleRoundRobin ==
    tournament.stage \in {"playoffs", "done"}
       => LET teams == tournament.teams
              n == Len(teams)
              lm == tournament.leagueMatches
          IN  /\ Len(lm) = n * (n - 1)
              /\ \A x, y \in 1..n :
                    x # y => CountIn(lm, <<teams[x].name, teams[y].name>>) = 1
              /\ \A x \in 1..n :
                    /\ teams[x].p = 2 * (n - 1)
                    /\ Cardinality({k \in 1..Len(lm) : lm[k][1] = teams[x].name})
                          = n - 1

\* the league of three teams has been played
C33_Witness ==
    /\ tournament.stage = "playoffs"
    /\ Len(tournament.teams) = 3
    /\ Len(tournament.leagueMatches) = 6

\* C34: the standings are in order of points, and among equal points of net
\* rate: of two teams the one listed earlier has more points, or the same
\* points and a net rate that is not lower; a team's points are twice its
\* league wins.
C34_StandingsSorted ==
    /\ tournament.stage \in {"playoffs", "done"}
          => \A x, y \in 1..Len(tournament.teams) :
                x < y => \/ tournament.teams[x].pts > tournament.teams[y].pts
                         \/ /\ tournament.teams[x].pts = tournament.teams[y].pts
                            /\ ~nrrLess(tournament.teams[x], tournament.teams[y])
    /\ tournament.stage \in {"league", "playoffs", "done"}
          => \A x \in 1..Len(tournament.teams) :
                tournament.teams[x].pts = 2 * tournament.teams[x].w

\* the sort has put C, third in the list, ahead of A on net rate alone
C34_Witness ==
    /\ tournament.stage = "playoffs"
    /\ Len(tournament.teams) = 3
    /\ tournament.teams[1].name = "C"
    /\ tournament.teams[2].name = "A"
    /\ tournament.teams[1].pts = tournament.teams[2].pts
    /\ nrrLess(tournament.teams[2], tournament.teams[1])

\* C35: the winner of a match is the side with the higher score, on equal
\* scores the side that batted first, and it is exactly one of the two sides.
C35_WinnerByScore ==
    tournament.stage \in {"league", "playoffs", "done"}
       => \A res \in {tournament.last} :
             res.type # "none"
                => /\ res.score1 > res.score2 => res.winnerName = res.t1
                   /\ res.score2 > res.score1 => res.winnerName = res.t2
                   /\ res.score1 = res.score2 => res.winnerName = res.t1
                   /\ (res.winnerName = res.t1) # (res.winnerName = res.t2)

\* a play-off match has ended in a tie
C35_Witness ==
    /\ tournament.stage \in {"playoffs", "done"}
    /\ tournament.last.type \in {"Qualifier 1", "FINAL"}
    /\ tournament.last.score1 = tournament.last.score2
    /\ tournament.last.winnerName = tournament.last.t1

====
